---- MODULE Spec2Model ----
(***************************************************************************)
(* A model of newspaper/configuration.py: the Configuration settings       *)
(* object, its language setter with the derived stopwords_class, and the   *)
(* property accessors that delegate into the requests_params dictionary.   *)
(*                                                                         *)
(* Python values are tagged records.  A str is the sequence of its         *)
(* characters, so that len() is computed and not assumed.  A dict is a     *)
(* function whose DOMAIN is its key set; dictionary keys and class         *)
(* references are written as TLA+ strings because the code only compares   *)
(* them.                                                                   *)
(***************************************************************************)
EXTENDS Integers, Sequences, FiniteSets, TLC

VARIABLES
    _language,          \* self._language
    stopwords_class,    \* self.stopwords_class
    use_meta_language,  \* self.use_meta_language
    requests_params,    \* self.requests_params (a dict)
    lastOp,             \* the property or attribute operation that ran last
    lastArg,            \* the value it was called with (None for a getter)
    out,                \* its outcome: a returned value or a raised exception
    accepted,           \* history: some language assignment has succeeded
    had_headers,        \* history: "headers" was a key before the last operation
    pc,                 \* per worker: position inside the language setter
    arg,                \* per worker: the value being assigned
    rpc,                \* the reader's position
    r_language,         \* the language the reader read
    r_stopwords,        \* the stopwords_class the reader read
    lastLangWriter,     \* history: worker that wrote _language last
    lastStopWriter      \* history: worker that wrote stopwords_class last

cfgvars  == <<_language, stopwords_class, use_meta_language>>
seqvars  == <<lastOp, lastArg, out, accepted, had_headers>>
concvars == <<pc, arg, rpc, r_language, r_stopwords, lastLangWriter, lastStopWriter>>
vars     == <<_language, stopwords_class, use_meta_language, requests_params,
              lastOp, lastArg, out, accepted, had_headers,
              pc, arg, rpc, r_language, r_stopwords, lastLangWriter, lastStopWriter>>

----------------------------------------------------------------------------
(* Python values *)

None      == [kind |-> "None"]
Str(s)    == [kind |-> "str", s |-> s]
PyInt(n)    == [kind |-> "int", n |-> n]
Dict(m)   == [kind |-> "dict", m |-> m]
CookieJar == [kind |-> "CookieJar"]

Return(v) == [kind |-> "return", v |-> v]
Raise(e)  == [kind |-> "raise", exc |-> e]

\* `not value` for the values that reach the language setter
Falsy(v) ==
    \/ v.kind = "None"
    \/ v.kind = "str" /\ Len(v.s) = 0

\* len(value)
PyLen(v) == Len(v.s)

\* d[k] = v
SetItem(d, k, v) == [x \in (DOMAIN d) \cup {k} |-> IF x = k THEN v ELSE d[x]]

\* d.get(k)
DictGet(d, k) == IF k \in DOMAIN d THEN d[k] ELSE None

\* del d[k]
DelItem(d, k) == [x \in (DOMAIN d) \ {k} |-> d[x]]

EmptyDict == [x \in {} |-> None]

----------------------------------------------------------------------------
(* Collaborators *)

\* newspaper.utils.get_available_languages(): the supported 2-character codes
get_available_languages ==
    { Str(<<"e","n">>), Str(<<"d","e">>), Str(<<"k","o">>), Str(<<"h","i">>),
      Str(<<"z","h">>), Str(<<"a","r">>), Str(<<"f","a">>), Str(<<"j","a">>),
      Str(<<"t","h">>) }

\* newspaper.version.__version__
version == <<"0",".","9">>

----------------------------------------------------------------------------
(* Configuration.get_stopwords_class *)

\* a resolution that forgets that Persian shares the Arabic strategy
get_stopwords_class_no_fa(language) ==
    IF language = Str(<<"k","o">>) THEN "StopWordsKorean"
    ELSE IF language = Str(<<"h","i">>) THEN "StopWordsHindi"
    ELSE IF language = Str(<<"z","h">>) THEN "StopWordsChinese"
    ELSE IF language = Str(<<"a","r">>) THEN "StopWordsArabic"
    ELSE IF language = Str(<<"j","a">>) THEN "StopWordsJapanese"
    ELSE IF language = Str(<<"t","h">>) THEN "StopWordsThai"
    ELSE "StopWords"

get_stopwords_class(language) ==
    IF language = Str(<<"k","o">>) THEN "StopWordsKorean"
    ELSE IF language = Str(<<"h","i">>) THEN "StopWordsHindi"
    ELSE IF language = Str(<<"z","h">>) THEN "StopWordsChinese"
    ELSE IF language = Str(<<"a","r">>) \/ language = Str(<<"f","a">>)
         THEN "StopWordsArabic"
    ELSE IF language = Str(<<"j","a">>) THEN "StopWordsJapanese"
    ELSE IF language = Str(<<"t","h">>) THEN "StopWordsThai"
    ELSE "StopWords"

----------------------------------------------------------------------------
(* Configuration.language (setter) *)

\* a validation that checks the length only
language_check_length_only(value) ==
    IF Falsy(value) \/ PyLen(value) # 2
    THEN Raise("ValueError")
    ELSE Return(None)

\* lines 140-149: the two rejections, in the order the code tests them
language_check(value) ==
    IF Falsy(value) \/ PyLen(value) # 2
    THEN Raise("ValueError")
    ELSE IF value \notin get_available_languages
    THEN Raise("ValueError")
    ELSE Return(None)

\* writes that leave the stopword class as it was constructed
language_writes_stale_class(value) ==
    [ use_meta_language |-> FALSE,
      _language         |-> value,
      stopwords_class   |-> "StopWords" ]

\* lines 151-156: the three assignments of an accepted value
language_writes(value) ==
    [ use_meta_language |-> FALSE,
      _language         |-> value,
      stopwords_class   |-> get_stopwords_class(value) ]

\* a setter that clears the flag before it validates
language_setter_flag_first(self, value) ==
    IF language_check(value).kind = "raise"
    THEN [ self |-> [self EXCEPT !.use_meta_language = FALSE],
           out  |-> language_check(value) ]
    ELSE [ self |-> language_writes(value), out |-> Return(None) ]

\* a setter that never clears the flag
language_setter_keep_flag(self, value) ==
    IF language_check(value).kind = "raise"
    THEN [ self |-> self, out |-> language_check(value) ]
    ELSE [ self |-> [language_writes(value) EXCEPT !.use_meta_language = self.use_meta_language],
           out  |-> Return(None) ]

\* lines 135-156, run to completion by one caller
language_setter(self, value) ==
    IF language_check(value).kind = "raise"
    THEN [ self |-> self, out |-> language_check(value) ]
    ELSE [ self |-> language_writes(value), out |-> Return(None) ]

----------------------------------------------------------------------------
(* Delegated request-parameter accessors.  Each takes the dictionary and   *)
(* gives the dictionary it leaves behind and the outcome of the call.      *)

\* lines 97-98 and 103-104
ensure_headers(rp) ==
    IF "headers" \notin DOMAIN rp THEN SetItem(rp, "headers", Dict(EmptyDict)) ELSE rp

\* a getter that looks the mapping up without creating it
browser_user_agent_get_no_create(rp) ==
    IF "headers" \notin DOMAIN rp
    THEN [ rp |-> rp, out |-> Return(None) ]
    ELSE IF rp["headers"].kind = "dict"
    THEN [ rp |-> rp, out |-> Return(DictGet(rp["headers"].m, "User-Agent")) ]
    ELSE [ rp |-> rp, out |-> Raise("AttributeError") ]

\* lines 95-99; .get on a value that is not a dict raises AttributeError
browser_user_agent_get(rp) ==
    LET rp1 == ensure_headers(rp) IN
    IF rp1["headers"].kind = "dict"
    THEN [ rp |-> rp1, out |-> Return(DictGet(rp1["headers"].m, "User-Agent")) ]
    ELSE [ rp |-> rp1, out |-> Raise("AttributeError") ]

\* a setter that replaces the header mapping by one holding the agent alone
browser_user_agent_set_replace(rp, value) ==
    LET rp1 == ensure_headers(rp) IN
    IF rp1["headers"].kind = "dict"
    THEN [ rp  |-> SetItem(rp1, "headers",
                           Dict(SetItem(EmptyDict, "User-Agent", value))),
           out |-> Return(None) ]
    ELSE [ rp |-> rp1, out |-> Raise("TypeError") ]

\* lines 101-105; item assignment on a value that is not a dict raises TypeError
browser_user_agent_set(rp, value) ==
    LET rp1 == ensure_headers(rp) IN
    IF rp1["headers"].kind = "dict"
    THEN [ rp  |-> SetItem(rp1, "headers",
                           Dict(SetItem(rp1["headers"].m, "User-Agent", value))),
           out |-> Return(None) ]
    ELSE [ rp |-> rp1, out |-> Raise("TypeError") ]

\* lines 107-109
headers_get(rp) == [ rp |-> rp, out |-> Return(DictGet(rp, "headers")) ]

\* lines 111-113
headers_set(rp, value) == [ rp |-> SetItem(rp, "headers", value), out |-> Return(None) ]

\* lines 115-117
request_timeout_get(rp) == [ rp |-> rp, out |-> Return(DictGet(rp, "timeout")) ]

\* lines 119-121
request_timeout_set(rp, value) == [ rp |-> SetItem(rp, "timeout", value), out |-> Return(None) ]

\* lines 123-125
proxies_get(rp) == [ rp |-> rp, out |-> Return(DictGet(rp, "proxies")) ]

\* lines 127-129
proxies_set(rp, value) == [ rp |-> SetItem(rp, "proxies", value), out |-> Return(None) ]

----------------------------------------------------------------------------
(* Inputs *)

\* the longest string over Alphabet that a caller tries as a language
MaxCodeLen == 3

Alphabet == { "e", "n" }

\* values a caller assigns to language: None, every string over Alphabet of
\* length 0 to MaxCodeLen (empty, too short, "en", unsupported pairs, too
\* long), an unsupported pair, a supported code in the wrong case, a
\* 3-letter code, and every supported code
LanguageInputs ==
    { None, Str(<<"x","x">>), Str(<<"E","N">>), Str(<<"e","n","g">>) }
        \cup { Str(s) : s \in UNION { [1..n -> Alphabet] : n \in 0..MaxCodeLen } }
        \cup get_available_languages

UserAgentInputs == { None, Str(<<"X">>) }

DefaultUserAgent == Str(<<"n","e","w","s","p","a","p","e","r","/">> \o version)

HeadersInputs ==
    { None,
      Dict(EmptyDict),
      Dict(SetItem(EmptyDict, "Accept", Str(<<"A">>))),
      Dict(SetItem(EmptyDict, "User-Agent", DefaultUserAgent)) }

TimeoutInputs == { None, PyInt(7), PyInt(30) }

ProxiesInputs ==
    { None, Dict(EmptyDict), Dict(SetItem(EmptyDict, "http", Str(<<"P">>))) }

\* the entries of requests_params that an accessor reads
AccessorKeys == { "headers", "timeout", "proxies" }

Workers == { "w1", "w2" }
NoWorker == "nobody"

----------------------------------------------------------------------------
(* Configuration.__init__ *)

InitialRequestsParams ==
    [ k \in { "timeout", "proxies", "headers", "cookies" } |->
        IF k = "timeout" THEN PyInt(7)
        ELSE IF k = "proxies" THEN Dict(EmptyDict)
        ELSE IF k = "headers" THEN Dict(SetItem(EmptyDict, "User-Agent", DefaultUserAgent))
        ELSE CookieJar ]

Init ==
    /\ use_meta_language = TRUE
    /\ _language = Str(<<"e","n">>)
    /\ stopwords_class = "StopWords"
    /\ requests_params = InitialRequestsParams
    /\ lastOp = "__init__"
    /\ lastArg = None
    /\ out = Return(None)
    /\ accepted = FALSE
    /\ had_headers = TRUE
    /\ pc = [w \in Workers |-> "idle"]
    /\ arg = [w \in Workers |-> None]
    /\ rpc = "idle"
    /\ r_language = None
    /\ r_stopwords = "unread"
    /\ lastLangWriter = NoWorker
    /\ lastStopWriter = NoWorker

self_fields ==
    [ use_meta_language |-> use_meta_language,
      _language         |-> _language,
      stopwords_class   |-> stopwords_class ]

----------------------------------------------------------------------------
(* One caller: every property access runs to completion *)

SetLanguage(value) ==
    LET r == language_setter(self_fields, value) IN
    /\ use_meta_language' = r.self.use_meta_language
    /\ _language' = r.self._language
    /\ stopwords_class' = r.self.stopwords_class
    /\ lastOp' = "language.set"
    /\ lastArg' = value
    /\ out' = r.out
    /\ accepted' = (accepted \/ r.out.kind = "return")
    /\ had_headers' = ("headers" \in DOMAIN requests_params)
    /\ UNCHANGED <<requests_params, concvars>>

Access(name, value, r) ==
    /\ requests_params' = r.rp
    /\ lastOp' = name
    /\ lastArg' = value
    /\ out' = r.out
    /\ had_headers' = ("headers" \in DOMAIN requests_params)
    /\ UNCHANGED <<cfgvars, accepted, concvars>>

GetBrowserUserAgent ==
    Access("browser_user_agent.get", None, browser_user_agent_get(requests_params))

SetBrowserUserAgent(value) ==
    Access("browser_user_agent.set", value, browser_user_agent_set(requests_params, value))

GetHeaders == Access("headers.get", None, headers_get(requests_params))

SetHeaders(value) == Access("headers.set", value, headers_set(requests_params, value))

GetRequestTimeout == Access("request_timeout.get", None, request_timeout_get(requests_params))

SetRequestTimeout(value) ==
    Access("request_timeout.set", value, request_timeout_set(requests_params, value))

GetProxies == Access("proxies.get", None, proxies_get(requests_params))

SetProxies(value) == Access("proxies.set", value, proxies_set(requests_params, value))

\* a holder of the object removes an entry of the public requests_params
\* dictionary, the case that lines 97 and 103 test for
DelRequestsParam(k) ==
    /\ k \in DOMAIN requests_params
    /\ requests_params' = DelItem(requests_params, k)
    /\ lastOp' = "requests_params.del"
    /\ lastArg' = None
    /\ out' = Return(None)
    /\ had_headers' = ("headers" \in DOMAIN requests_params)
    /\ UNCHANGED <<cfgvars, accepted, concvars>>

Next ==
    \/ \E value \in LanguageInputs : SetLanguage(value)
    \/ GetBrowserUserAgent
    \/ \E value \in UserAgentInputs : SetBrowserUserAgent(value)
    \/ GetHeaders
    \/ \E value \in HeadersInputs : SetHeaders(value)
    \/ GetRequestTimeout
    \/ \E value \in TimeoutInputs : SetRequestTimeout(value)
    \/ GetProxies
    \/ \E value \in ProxiesInputs : SetProxies(value)
    \/ \E k \in AccessorKeys : DelRequestsParam(k)

Spec == Init /\ [][Next]_vars

----------------------------------------------------------------------------
(* Two workers and a reader share the object without a lock: each          *)
(* attribute write of the setter, and each attribute read, is its own step *)

Call(w, value) ==
    /\ pc[w] = "idle"
    /\ pc' = [pc EXCEPT ![w] = "check"]
    /\ arg' = [arg EXCEPT ![w] = value]
    /\ UNCHANGED <<cfgvars, requests_params, seqvars, rpc, r_language,
                   r_stopwords, lastLangWriter, lastStopWriter>>

\* lines 140-149
Check(w) ==
    /\ pc[w] = "check"
    /\ pc' = [pc EXCEPT ![w] =
                IF language_check(arg[w]).kind = "raise" THEN "raised" ELSE "write_flag"]
    /\ UNCHANGED <<cfgvars, requests_params, seqvars, arg, rpc, r_language,
                   r_stopwords, lastLangWriter, lastStopWriter>>

\* line 152
WriteFlag(w) ==
    /\ pc[w] = "write_flag"
    /\ use_meta_language' = language_writes(arg[w]).use_meta_language
    /\ pc' = [pc EXCEPT ![w] = "write_language"]
    /\ UNCHANGED <<_language, stopwords_class, requests_params, seqvars, arg, rpc,
                   r_language, r_stopwords, lastLangWriter, lastStopWriter>>

\* line 155
WriteLanguage(w) ==
    /\ pc[w] = "write_language"
    /\ _language' = language_writes(arg[w])._language
    /\ lastLangWriter' = w
    /\ pc' = [pc EXCEPT ![w] = "write_class"]
    /\ UNCHANGED <<use_meta_language, stopwords_class, requests_params, seqvars, arg,
                   rpc, r_language, r_stopwords, lastStopWriter>>

\* line 156
WriteClass(w) ==
    /\ pc[w] = "write_class"
    /\ stopwords_class' = language_writes(arg[w]).stopwords_class
    /\ lastStopWriter' = w
    /\ pc' = [pc EXCEPT ![w] = "done"]
    /\ UNCHANGED <<use_meta_language, _language, requests_params, seqvars, arg,
                   rpc, r_language, r_stopwords, lastLangWriter>>

\* line 133, by a third holder of the object
ReadLanguage ==
    /\ rpc = "idle"
    /\ r_language' = _language
    /\ rpc' = "read_class"
    /\ UNCHANGED <<cfgvars, requests_params, seqvars, pc, arg, r_stopwords,
                   lastLangWriter, lastStopWriter>>

ReadClass ==
    /\ rpc = "read_class"
    /\ r_stopwords' = stopwords_class
    /\ rpc' = "done"
    /\ UNCHANGED <<cfgvars, requests_params, seqvars, pc, arg, r_language,
                   lastLangWriter, lastStopWriter>>

NextConc ==
    \/ \E w \in Workers : \E value \in LanguageInputs : Call(w, value)
    \/ \E w \in Workers : Check(w)
    \/ \E w \in Workers : WriteFlag(w)
    \/ \E w \in Workers : WriteLanguage(w)
    \/ \E w \in Workers : WriteClass(w)
    \/ ReadLanguage
    \/ ReadClass

SpecConc == Init /\ [][NextConc]_vars

----------------------------------------------------------------------------
(* Properties *)

en == Str(<<"e","n">>)
xx == Str(<<"x","x">>)
zh == Str(<<"z","h">>)
ko == Str(<<"k","o">>)
fa == Str(<<"f","a">>)

AllDone == \A w \in Workers : pc[w] = "done"

\* C1: whatever assignments were accepted or rejected, language is a str of
\* exactly 2 characters that is one of the supported codes; the constructed
\* object holds the fallback "en".
C1_LanguageIsSupportedCode ==
    /\ _language.kind = "str"
    /\ Len(_language.s) = 2
    /\ _language \in get_available_languages
    /\ (lastOp = "__init__" => _language = en)

C1_Witness ==
    /\ lastOp = "language.set"
    /\ lastArg = xx
    /\ out = Raise("ValueError")
    /\ _language = zh

\* the values the language setter has to reject
Rejectable(value) ==
    \/ value = None
    \/ value.kind = "str" /\ Len(value.s) # 2
    \/ value.kind = "str" /\ Len(value.s) = 2 /\ value \notin get_available_languages

\* C2: assigning an absent or empty value, a value whose length is not 2, or
\* an unsupported 2-character code raises the validation error (ValueError)
\* and leaves language, stopwords_class and use_meta_language as they were.
C2_RejectionIsAtomic ==
    [][ (lastOp' = "language.set" /\ (Rejectable(lastArg') \/ out'.kind = "raise"))
        => /\ out' = Raise("ValueError")
           /\ Rejectable(lastArg')
           /\ _language' = _language
           /\ stopwords_class' = stopwords_class
           /\ use_meta_language' = use_meta_language ]_vars

C2_Witness ==
    /\ lastOp = "language.set"
    /\ lastArg = Str(<<"e","n","g">>)
    /\ out = Raise("ValueError")
    /\ _language = ko
    /\ stopwords_class = "StopWordsKorean"
    /\ use_meta_language = FALSE

\* C3: after any series of assignments made one after the other through the
\* setter, stopwords_class is the class get_stopwords_class gives for language.
C3_ClassFollowsLanguage ==
    stopwords_class = get_stopwords_class(_language)

C3_Witness ==
    /\ lastOp = "language.set"
    /\ lastArg = None
    /\ out.kind = "raise"
    /\ _language = zh
    /\ stopwords_class = "StopWordsChinese"

\* C4: use_meta_language is true in the constructed object and exactly until
\* the first accepted language assignment, and false in every state after it,
\* whatever operation follows.
C4_FlagClearedOnceAccepted ==
    /\ use_meta_language = ~accepted
    /\ (lastOp = "__init__" => use_meta_language)

C4_Witness ==
    /\ accepted
    /\ ~use_meta_language
    /\ lastOp = "headers.set"

\* the mapping of section 4.3, as a table
ReferenceStrategy(code) ==
    CASE code = Str(<<"k","o">>) -> "StopWordsKorean"
      [] code = Str(<<"h","i">>) -> "StopWordsHindi"
      [] code = Str(<<"z","h">>) -> "StopWordsChinese"
      [] code = Str(<<"a","r">>) -> "StopWordsArabic"
      [] code = Str(<<"f","a">>) -> "StopWordsArabic"
      [] code = Str(<<"j","a">>) -> "StopWordsJapanese"
      [] code = Str(<<"t","h">>) -> "StopWordsThai"
      [] OTHER -> "StopWords"

\* C5: get_stopwords_class agrees with the reference table on every supported
\* code, and after an accepted assignment of a code stopwords_class is the
\* table's entry for that code.
C5_ResolutionMatchesTable ==
    /\ \A code \in get_available_languages :
           get_stopwords_class(code) = ReferenceStrategy(code)
    /\ (lastOp = "language.set" /\ out.kind = "return")
           => stopwords_class = ReferenceStrategy(lastArg)

C5_Witness ==
    /\ lastOp = "language.set"
    /\ lastArg = fa
    /\ out.kind = "return"
    /\ stopwords_class = "StopWordsArabic"

\* C6: after a setter of browser_user_agent, headers, request_timeout or
\* proxies was called with a value, the matching getter returns that value,
\* whatever requests_params held before.
C6_RoundTrip ==
    /\ lastOp = "browser_user_agent.set"
           => browser_user_agent_get(requests_params).out = Return(lastArg)
    /\ lastOp = "headers.set"
           => headers_get(requests_params).out = Return(lastArg)
    /\ lastOp = "request_timeout.set"
           => request_timeout_get(requests_params).out = Return(lastArg)
    /\ lastOp = "proxies.set"
           => proxies_get(requests_params).out = Return(lastArg)

\* C7: no operation other than the language setter raises, and in every state
\* each getter returns a value or None.
C7_OnlyLanguageSetterFails ==
    /\ (lastOp # "language.set" => out.kind = "return")
    /\ browser_user_agent_get(requests_params).out.kind = "return"
    /\ headers_get(requests_params).out.kind = "return"
    /\ request_timeout_get(requests_params).out.kind = "return"
    /\ proxies_get(requests_params).out.kind = "return"

AccessorOps ==
    { "browser_user_agent.get", "browser_user_agent.set", "headers.get", "headers.set",
      "request_timeout.get", "request_timeout.set", "proxies.get", "proxies.set" }

\* C8 as stated: whichever accessor is used while requests_params has no
\* "headers" entry, the entry exists afterwards.
C8_EveryAccessorCreatesHeaders ==
    (lastOp \in AccessorOps /\ ~had_headers) => "headers" \in DOMAIN requests_params

\* C8: used while requests_params has no "headers" entry, the getter of
\* browser_user_agent creates it as an empty mapping, the setter of
\* browser_user_agent creates it holding the User-Agent alone, the setter of
\* headers stores its value there, and the getter of headers and the getters
\* and setters of request_timeout and proxies leave the entry absent.
C8_OnlyUserAgentCreatesHeaders ==
    (lastOp \in AccessorOps /\ ~had_headers) =>
        /\ lastOp = "browser_user_agent.get" =>
               /\ "headers" \in DOMAIN requests_params
               /\ requests_params["headers"] = Dict(EmptyDict)
               /\ out = Return(None)
        /\ lastOp = "browser_user_agent.set" =>
               /\ "headers" \in DOMAIN requests_params
               /\ requests_params["headers"] =
                      Dict(SetItem(EmptyDict, "User-Agent", lastArg))
        /\ lastOp = "headers.set" =>
               /\ "headers" \in DOMAIN requests_params
               /\ requests_params["headers"] = lastArg
        /\ lastOp \in { "headers.get", "request_timeout.get", "request_timeout.set",
                        "proxies.get", "proxies.set" } =>
               "headers" \notin DOMAIN requests_params
        /\ lastOp = "headers.get" => out = Return(None)

C8_Witness ==
    /\ lastOp = "browser_user_agent.get"
    /\ ~had_headers
    /\ requests_params["headers"] = Dict(EmptyDict)

\* the entries of a header mapping other than User-Agent
OtherHeaders(h) == [ x \in (DOMAIN h.m) \ { "User-Agent" } |-> h.m[x] ]

\* C9: the browser_user_agent setter changes nothing but the User-Agent entry
\* of the header mapping (the other header entries, timeout, proxies, cookies,
\* language, stopwords_class and use_meta_language stay), and a language
\* assignment, accepted or rejected, leaves requests_params as it was.
C9_FrameOfSetters ==
    [][ /\ lastOp' = "browser_user_agent.set" =>
            /\ _language' = _language
            /\ stopwords_class' = stopwords_class
            /\ use_meta_language' = use_meta_language
            /\ DelItem(requests_params', "headers") = DelItem(requests_params, "headers")
            /\ ("headers" \in DOMAIN requests_params /\ out'.kind = "return") =>
                   OtherHeaders(requests_params'["headers"])
                       = OtherHeaders(requests_params["headers"])
            /\ ("headers" \notin DOMAIN requests_params) =>
                   DOMAIN OtherHeaders(requests_params'["headers"]) = {}
            /\ out'.kind = "raise" => requests_params' = requests_params
        /\ lastOp' = "language.set" => requests_params' = requests_params ]_vars

C9_Witness ==
    /\ lastOp = "browser_user_agent.set"
    /\ lastArg = Str(<<"X">>)
    /\ out.kind = "return"
    /\ "headers" \in DOMAIN requests_params
    /\ requests_params["headers"].kind = "dict"
    /\ DOMAIN requests_params["headers"].m = { "Accept", "User-Agent" }
    /\ requests_params["headers"].m["User-Agent"] = Str(<<"X">>)

\* C10 as stated: once both workers' assignments have completed,
\* stopwords_class is the class of the final language, and a reader never
\* reads a language and a stopwords_class that do not match.
C10_ConcurrentSettersConsistent ==
    /\ AllDone => stopwords_class = get_stopwords_class(_language)
    /\ rpc = "done" => r_stopwords = get_stopwords_class(r_language)

\* C10: once both workers' assignments have completed, use_meta_language is
\* false, language is the code of the worker that wrote language last and
\* stopwords_class is the class of the code of the worker that wrote
\* stopwords_class last; the two match when that is the same worker.  A reader
\* reads the constructed or an assigned language, and the constructed class or
\* the class of an assigned code.
C10_LastWriterWins ==
    /\ AllDone =>
           /\ use_meta_language = FALSE
           /\ _language = arg[lastLangWriter]
           /\ stopwords_class = get_stopwords_class(arg[lastStopWriter])
           /\ (lastLangWriter = lastStopWriter
                   => stopwords_class = get_stopwords_class(_language))
    /\ rpc = "done" =>
           /\ r_language \in { en } \cup { arg[w] : w \in Workers }
           /\ r_stopwords \in { "StopWords" }
                                \cup { get_stopwords_class(arg[w]) : w \in Workers }

C10_Witness ==
    /\ AllDone
    /\ lastLangWriter # lastStopWriter
    /\ stopwords_class # get_stopwords_class(_language)
    /\ rpc = "done"
    /\ r_stopwords # get_stopwords_class(r_language)

====
